---- MODULE Spec2Model ----
(***************************************************************************)
(* Model of entrails.py: the paginated S3 listing crawler                  *)
(* (list_s3_bucket_to_csv, cmd_fetch), the aggregation of the record table *)
(* into the four figures (cmd_visualize), and the run-all command (main).  *)
(*                                                                         *)
(* Text is modelled as a sequence of one-character strings, so that        *)
(* lower(), substring search, rstrip/split and os.path.splitext are        *)
(* computed the way the code computes them.  Python's None is the value    *)
(* None; an XML element that find() does not find is the value Absent; a   *)
(* missing value of a DataFrame is the value NaN.                          *)
(***************************************************************************)
EXTENDS Integers, Sequences, FiniteSets, TLC

VARIABLES
    buckets,            \* cmd_fetch argument: the list of bucket URLs
    max_pages,          \* cmd_fetch argument: <<>> for None, <<n>> for the integer n
    pc,                 \* "start" | "bucket" | "fetch" | "done" | "failed"
    bi,                 \* index in buckets of the bucket being (or last) crawled
    marker,             \* list_s3_bucket_to_csv local
    page_count,         \* list_s3_bucket_to_csv local
    skipped_envidat1,   \* list_s3_bucket_to_csv local
    skipped_doi_meta,   \* list_s3_bucket_to_csv local
    csv,                \* the rows written to out_csv, header included
    net,                \* every request issued so far, with the response it got
    outcome,            \* how the crawl of each bucket ended, in bucket order
    exc,                \* the exception that left cmd_fetch, "" when none
    viz                 \* the figures cmd_visualize made, NoFigures before it has run

vars == <<buckets, max_pages, pc, bi, marker, page_count, skipped_envidat1,
          skipped_doi_meta, csv, net, outcome, exc, viz>>

(***************************************************************************)
(* Bounds of the model.                                                    *)
(***************************************************************************)
\* Requests issued in one run, over all buckets.
MaxRequests == 2
\* Contents entries in one listing page.
MaxEntries == 2

(***************************************************************************)
(* Text helpers.                                                           *)
(***************************************************************************)
None == <<"None">>
Absent == <<"absent">>

\* The upper-case letters and their lower-case forms
LowerOf ==
    [A |-> "a", B |-> "b", C |-> "c", D |-> "d", E |-> "e", F |-> "f", G |-> "g",
     H |-> "h", I |-> "i", J |-> "j", K |-> "k", L |-> "l", M |-> "m", N |-> "n",
     O |-> "o", P |-> "p", Q |-> "q", R |-> "r", S |-> "s", T |-> "t", U |-> "u",
     V |-> "v", W |-> "w", X |-> "x", Y |-> "y", Z |-> "z"]

\* str.lower() on one character
LowerChar(c) == IF c \in DOMAIN LowerOf THEN LowerOf[c] ELSE c

\* str.lower()
Lower(s) == [i \in 1..Len(s) |-> LowerChar(s[i])]

\* sub in s
Contains(s, sub) ==
    \E i \in 0..(Len(s) - Len(sub)) : SubSeq(s, i + 1, i + Len(sub)) = sub

\* s.rfind(c), 0-based, -1 when c does not occur
RECURSIVE RFind(_, _)
RFind(s, c) ==
    IF s = <<>> THEN -1
    ELSE IF s[Len(s)] = c THEN Len(s) - 1
    ELSE RFind(SubSeq(s, 1, Len(s) - 1), c)

\* s.rstrip('/')
RECURSIVE RStripSlash(_)
RStripSlash(s) ==
    IF s # <<>> /\ s[Len(s)] = "/" THEN RStripSlash(SubSeq(s, 1, Len(s) - 1)) ELSE s

\* s.split('/')[-1]
LastSegment(s) == SubSeq(s, RFind(s, "/") + 2, Len(s))

\* os.path.splitext(p)[1]: the suffix from the last dot, provided the dot
\* comes after the last '/' and the basename has a non-dot character before it
SplitExt(p) ==
    LET sepIndex == RFind(p, "/")
        dotIndex == RFind(p, ".")
    IN  IF dotIndex > sepIndex
           /\ \E filenameIndex \in (sepIndex + 1)..(dotIndex - 1) : p[filenameIndex + 1] # "."
        THEN SubSeq(p, dotIndex + 1, Len(p))
        ELSE <<>>

(***************************************************************************)
(* Program constants.                                                      *)
(***************************************************************************)
CSV_HEADERS == <<"bucket_url", "bucket_name", "key", "last_modified", "etag", "size",
                 "storage_class", "owner_id", "owner_display_name", "type">>

TXT_envidat1 == <<"e", "n", "v", "i", "d", "a", "t", ".", "1">>
TXT_envidat_doi == <<"e", "n", "v", "i", "d", "a", "t", "-", "d", "o", "i">>
EXT_html == <<".", "h", "t", "m", "l">>
EXT_json == <<".", "j", "s", "o", "n">>
EXT_xml == <<".", "x", "m", "l">>
TXT_true == <<"t", "r", "u", "e">>

(***************************************************************************)
(* Inputs: the bucket lists, the page ceilings and the server's answers.   *)
(***************************************************************************)
URL_doi == <<"h", "/", "e", "n", "v", "i", "d", "a", "t", "-", "d", "o", "i", "/">>
URL_pc == <<"h", "/", "s", "/", "p", "c">>

BucketLists == { <<URL_doi, URL_pc>> }

\* --max-pages: not given, or an integer
MaxPagesArgs == { <<>>, <<0>>, <<1>>, <<2>> }

KEY_plain == <<"d", "/", "r">>
KEY_json == <<"m", ".", "J", "S", "O", "N">>
KEY_both == <<"x", "/", "E", "n", "v", "i", "d", "a", "t", ".", "1", ".", "X", "m", "l">>
TEXT_True == <<"T", "r", "u", "e">>
TEXT_false == <<"f", "a", "l", "s", "e">>
TEXT_k2 == <<"k", "2">>

\* A <Contents> element: each field is Absent, None (an empty element) or text;
\* Owner is <<>> when the element has no <Owner>, else <<the Owner element>>.
Content(key, last_modified, etag, size, storage_class, owner, type) ==
    [Key |-> key, LastModified |-> last_modified, ETag |-> etag, Size |-> size,
     StorageClass |-> storage_class, Owner |-> owner, Type |-> type]

OwnerElem(id, display) == <<[ID |-> id, DisplayName |-> display]>>

\* The objects the server lists, in listing order.  A page holds any run of
\* up to MaxEntries consecutive objects of this listing.
Listing == <<
    Content(KEY_plain, <<"t", "1">>, <<"e", "1">>, <<"7">>, <<"S">>, OwnerElem(<<"o">>, <<"O">>), Absent),
    Content(None, Absent, <<"e", "2">>, <<"x">>, Absent, OwnerElem(None, Absent), None),
    Content(KEY_json, <<"t", "3">>, Absent, <<"1", "2">>, Absent, <<>>, <<"f">>),
    Content(KEY_both, <<"t", "4">>, None, None, None, <<>>, Absent) >>

ContentsChoices ==
    { <<>> } \cup
    { SubSeq(Listing, i, j) : <<i, j>> \in
        { p \in (1..Len(Listing)) \X (1..Len(Listing)) :
            p[1] <= p[2] /\ p[2] - p[1] + 1 <= MaxEntries } }

\* The <IsTruncated> and <NextMarker> elements a page may carry.
PageTails ==
    { [IsTruncated |-> Absent, NextMarker |-> Absent],
      [IsTruncated |-> TEXT_false, NextMarker |-> TEXT_k2],
      [IsTruncated |-> None, NextMarker |-> Absent],
      [IsTruncated |-> TEXT_True, NextMarker |-> Absent],
      [IsTruncated |-> TEXT_True, NextMarker |-> TEXT_k2] }

\* The parsed <ListBucketResult> documents the server may answer with.
Roots ==
    { [Contents |-> c, IsTruncated |-> t.IsTruncated, NextMarker |-> t.NextMarker] :
        c \in ContentsChoices, t \in PageTails }

NoRoot == [Contents |-> <<>>, IsTruncated |-> Absent, NextMarker |-> Absent]

\* What one GET can come back with: a transport/HTTP failure, a body that is
\* not XML, or a parsed document.
Responses ==
    { [kind |-> "fetch_error", root |-> NoRoot], [kind |-> "parse_error", root |-> NoRoot] }
    \cup { [kind |-> "page", root |-> r] : r \in Roots }

(***************************************************************************)
(* list_s3_bucket_to_csv: the helpers.                                     *)
(***************************************************************************)
\* _safe_find_text(elem, tag): '' when the subelement is absent, else its
\* text, which is None for an empty element
SafeFindText(elem, tag) == IF elem[tag] = Absent THEN <<>> ELSE elem[tag]

\* bucket_url.rstrip('/').split('/')[-1]
BucketName(bucket_url) == LastSegment(RStripSlash(bucket_url))

\* bool(text) of an Optional[str]
Truthy(text) == text # None /\ text # <<>>

\* params = {}; if marker: params['marker'] = marker
Params(m) == IF Truthy(m) THEN { <<"marker", m>> } ELSE {}

\* key.lower() if isinstance(key, str) else ''
LowerKey(key) == IF key # None THEN Lower(key) ELSE <<>>

\* Rule 1: 'envidat.1' in lower_key
Rule1(key) == Contains(LowerKey(key), TXT_envidat1)

\* Rule 2 applied whatever the bucket
IsDoiBucket_AnyBucket(bucket_name) == TRUE

\* bucket_name == 'envidat-doi'
IsDoiBucket(bucket_name) == bucket_name = TXT_envidat_doi

\* Rule 2's test on the key: splitext(key)[1].lower() in ('.html', '.json', '.xml')
Rule2Ext(key) ==
    Lower(SplitExt(IF key # None THEN key ELSE <<>>)) \in {EXT_html, EXT_json, EXT_xml}

\* Rule 2 tested before Rule 1
Classify_DoiFirst(bucket_name, key) ==
    IF IsDoiBucket(bucket_name) /\ Rule2Ext(key) THEN "doi_meta"
    ELSE IF Rule1(key) THEN "envidat1"
    ELSE "write"

\* The filtering rules in the order the loop body applies them: which of the
\* two `continue`s, if any, an entry takes.
Classify(bucket_name, key) ==
    IF Rule1(key) THEN "envidat1"
    ELSE IF IsDoiBucket(bucket_name) /\ Rule2Ext(key) THEN "doi_meta"
    ELSE "write"

\* The dict handed to csv_writer.writerow
RowDict(bucket_url, bucket_name, content) ==
    [bucket_url |-> bucket_url,
     bucket_name |-> bucket_name,
     key |-> SafeFindText(content, "Key"),
     last_modified |-> SafeFindText(content, "LastModified"),
     etag |-> SafeFindText(content, "ETag"),
     size |-> SafeFindText(content, "Size"),
     storage_class |-> SafeFindText(content, "StorageClass"),
     owner_id |-> IF content.Owner # <<>> THEN SafeFindText(content.Owner[1], "ID") ELSE <<>>,
     owner_display_name |->
        IF content.Owner # <<>> THEN SafeFindText(content.Owner[1], "DisplayName") ELSE <<>>,
     type |-> SafeFindText(content, "Type")]

\* csv.DictWriter: one cell per fieldname, in fieldnames order; None is written ''
CsvCell(v) == IF v = None THEN <<>> ELSE v
CsvRow(d) == [i \in 1..Len(CSV_HEADERS) |-> CsvCell(d[CSV_HEADERS[i]])]

\* The row put right after the header instead of at the end
WriteRow_AfterHeader(rows, d) == <<Head(rows), CsvRow(d)>> \o Tail(rows)

\* The row written twice
WriteRow_Twice(rows, d) == Append(Append(rows, CsvRow(d)), CsvRow(d))

\* The row written over the last line of the file
WriteRow_OverLast(rows, d) == Append(SubSeq(rows, 1, Len(rows) - 1), CsvRow(d))

\* csv_writer.writerow: the row goes to the end of the file
WriteRow(rows, d) == Append(rows, CsvRow(d))

\* for content in contents: ... -- the rows and the two skip counters after
\* the loop over one page's entries, acc being their values before it
RECURSIVE ProcessContents(_, _, _, _)
ProcessContents(contents, bucket_url, bucket_name, acc) ==
    IF contents = <<>> THEN acc
    ELSE LET content == Head(contents)
             key == SafeFindText(content, "Key")
             rule == Classify(bucket_name, key)
             after ==
                IF rule = "envidat1"
                THEN [acc EXCEPT !.skipped_envidat1 = @ + 1]
                ELSE IF rule = "doi_meta"
                THEN [acc EXCEPT !.skipped_doi_meta = @ + 1]
                ELSE [acc EXCEPT !.csv = WriteRow(@, RowDict(bucket_url, bucket_name, content))]
         IN  ProcessContents(Tail(contents), bucket_url, bucket_name, after)

\* Any <IsTruncated> element taken as true, whatever its text
IsTruncated_AnyText(tag) == tag # Absent

\* is_truncated_tag is not None and is_truncated_tag.text.lower() == 'true'
\* (evaluated only when the text is not None: None.lower() raises)
IsTruncated(tag) == tag # Absent /\ Lower(tag) = TXT_true

\* next_marker_tag is not None and next_marker_tag.text
HasNextMarker(root) == root.NextMarker # Absent /\ Truthy(root.NextMarker)

\* The fallback without the break on an empty page
Fallback_NoBreak(contents) ==
    [brk |-> FALSE,
     marker |-> IF contents # <<>> /\ contents[Len(contents)].Key # Absent
                THEN contents[Len(contents)].Key ELSE None]

\* The fallback when the page gives no NextMarker: break on an empty page,
\* else the text of the last entry's Key, None when it has none
Fallback(contents) ==
    IF contents # <<>>
    THEN LET last_key == contents[Len(contents)].Key
         IN  [brk |-> FALSE, marker |-> IF last_key # Absent THEN last_key ELSE None]
    ELSE [brk |-> TRUE, marker |-> None]

\* max_pages is not None and page_count >= max_pages
ReachedMaxPages(mp, pcount) == mp # <<>> /\ pcount >= mp[1]

\* The no-progress stop escalated to a failure of the run
NoProgressStop_Fatal == "failed"

\* Where the `break` of the no-progress guard leaves the run: out of the loop,
\* 'Finished bucket' is logged and the function returns to cmd_fetch's loop.
NoProgressStop == "bucket"

\* The exception caught and the run going on with the next bucket
OnError_Swallowed == "bucket"

\* Where an exception raised by the request or by the XML parser leaves the run:
\* it is logged and re-raised, and nothing up to cmd_fetch's caller catches it.
OnError == "failed"

(***************************************************************************)
(* cmd_visualize: the helpers.                                             *)
(***************************************************************************)
TXT_no_ext == <<"<", "n", "o", "_", "e", "x", "t", ">">>
TXT_other == <<"<", "o", "t", "h", "e", "r", ">">>
TXT_root == <<"r", "o", "o", "t">>
TXT_bucket_colon == <<"b", "u", "c", "k", "e", "t", ":">>
TXT_All_files == <<"A", "l", "l", " ", "f", "i", "l", "e", "s">>
TXT_All_bytes == <<"A", "l", "l", " ", "b", "y", "t", "e", "s">>
TXT_Total_files == <<"T", "o", "t", "a", "l", " ", "f", "i", "l", "e", "s">>
TXT_Total_bytes == <<"T", "o", "t", "a", "l", " ", "b", "y", "t", "e", "s">>

\* A missing value of a DataFrame
NaN == <<"NaN">>

\* The cells pd.read_csv reads as missing (its default na_values; dtype=str
\* does not switch the filter off)
NA_VALUES == {
    <<>>,
    <<"#", "N", "/", "A">>,
    <<"#", "N", "/", "A", " ", "N", "/", "A">>,
    <<"#", "N", "A">>,
    <<"-", "1", ".", "#", "I", "N", "D">>,
    <<"-", "1", ".", "#", "Q", "N", "A", "N">>,
    <<"-", "N", "a", "N">>,
    <<"-", "n", "a", "n">>,
    <<"1", ".", "#", "I", "N", "D">>,
    <<"1", ".", "#", "Q", "N", "A", "N">>,
    <<"<", "N", "A", ">">>,
    <<"N", "/", "A">>,
    <<"N", "A">>,
    <<"N", "U", "L", "L">>,
    <<"N", "a", "N">>,
    <<"N", "o", "n", "e">>,
    <<"n", "/", "a">>,
    <<"n", "a", "n">>,
    <<"n", "u", "l", "l">> }

\* One cell as pd.read_csv returns it
ReadCell(cell) == IF cell \in NA_VALUES THEN NaN ELSE cell

\* The column of the table called name
Column(name) == CHOOSE i \in 1..Len(CSV_HEADERS) : CSV_HEADERS[i] = name

\* The decimal digits and their values
DigitOf == [c \in {"0", "1", "2", "3", "4", "5", "6", "7", "8", "9"} |->
               CASE c = "0" -> 0 [] c = "1" -> 1 [] c = "2" -> 2 [] c = "3" -> 3
                 [] c = "4" -> 4 [] c = "5" -> 5 [] c = "6" -> 6 [] c = "7" -> 7
                 [] c = "8" -> 8 [] c = "9" -> 9]

\* The value of a string of decimal digits
RECURSIVE DecimalValue(_)
DecimalValue(s) ==
    IF s = <<>> THEN 0
    ELSE 10 * DecimalValue(SubSeq(s, 1, Len(s) - 1)) + DigitOf[s[Len(s)]]

\* The cells pd.to_numeric reads as an infinity: inf or infinity in any case,
\* with or without a sign
IsInfinite(size) ==
    /\ size # NaN
    /\ LET signed == size # <<>> /\ size[1] \in {"-", "+"}
       IN  Lower(IF signed THEN Tail(size) ELSE size) \in
              { <<"i", "n", "f">>, <<"i", "n", "f", "i", "n", "i", "t", "y">> }

\* pd.to_numeric(..., errors='coerce').fillna(0).astype('int64') on one cell,
\* for the finite cells of the model's tables: missing, a signed decimal
\* integer, or no number at all
SizeBytes(size) ==
    IF size = NaN THEN 0
    ELSE LET signed == size # <<>> /\ size[1] \in {"-", "+"}
             digits == IF signed THEN Tail(size) ELSE size
         IN  IF digits # <<>> /\ \A i \in 1..Len(digits) : digits[i] \in DOMAIN DigitOf
             THEN IF size[1] = "-" THEN 0 - DecimalValue(digits) ELSE DecimalValue(digits)
             ELSE 0

\* k.strip() == ''
IsBlank(k) == \A i \in 1..Len(k) : k[i] \in {" ", "\t", "\n"}

\* get_ext without the lower()
get_ext_NoLower(k) ==
    IF k = NaN \/ IsBlank(k) THEN TXT_no_ext
    ELSE LET base == LastSegment(k)
         IN  IF \A i \in 1..Len(base) : base[i] # "." THEN TXT_no_ext
             ELSE IF SplitExt(base) = <<>> THEN TXT_no_ext
             ELSE SplitExt(base)

\* get_ext(k)
get_ext(k) ==
    IF k = NaN \/ IsBlank(k) THEN TXT_no_ext
    ELSE LET base == LastSegment(k)
         IN  IF \A i \in 1..Len(base) : base[i] # "." THEN TXT_no_ext
             ELSE IF Lower(SplitExt(base)) = <<>> THEN TXT_no_ext
             ELSE Lower(SplitExt(base))

\* df after read_csv, df['extension'] = ... and df['size_bytes'] = ...: one
\* record per data row of the table
DataFrame(table) ==
    [n \in 1..(Len(table) - 1) |->
        LET row == table[n + 1]
            key == ReadCell(row[Column("key")])
            size == ReadCell(row[Column("size")])
        IN  [bucket_name |-> ReadCell(row[Column("bucket_name")]),
             key |-> key,
             size |-> size,
             extension |-> get_ext(key),
             size_bytes |-> SizeBytes(size)]]

\* The characters of keys and names in code-point order, and each one's place in it
Ascii ==
    <<" ", "!", "#", "$", "%", "&", "'", "(", ")", "*", "+", ",", "-", ".", "/", "0",
      "1", "2", "3", "4", "5", "6", "7", "8", "9", ":", ";", "<", "=", ">", "?", "@",
      "A", "B", "C", "D", "E", "F", "G", "H", "I", "J", "K", "L", "M", "N", "O", "P",
      "Q", "R", "S", "T", "U", "V", "W", "X", "Y", "Z", "[", "]", "^", "_", "a",
      "b", "c", "d", "e", "f", "g", "h", "i", "j", "k", "l", "m", "n", "o", "p", "q",
      "r", "s", "t", "u", "v", "w", "x", "y", "z", "{", "|", "}", "~">>
CodePointOf == [c \in { Ascii[i] : i \in 1..Len(Ascii) } |-> CHOOSE i \in 1..Len(Ascii) : Ascii[i] = c]

\* a < b on str
TextLess(a, b) ==
    LET n == IF Len(a) < Len(b) THEN Len(a) ELSE Len(b)
        differ == { i \in 1..n : a[i] # b[i] }
    IN  IF differ = {} THEN Len(a) < Len(b)
        ELSE LET i == CHOOSE i \in differ : \A j \in differ : i <= j
             IN  CodePointOf[a[i]] < CodePointOf[b[i]]

\* The texts of a set in ascending order: the order groupby gives its groups
RECURSIVE SortedTexts(_)
SortedTexts(S) ==
    IF S = {} THEN <<>>
    ELSE LET least == CHOOSE x \in S : \A y \in S : x = y \/ TextLess(x, y)
         IN  <<least>> \o SortedTexts(S \ {least})

RECURSIVE SumOf(_)
SumOf(rows) == IF rows = <<>> THEN 0 ELSE Head(rows).n + SumOf(Tail(rows))

\* The concatenation of a sequence of sequences
RECURSIVE Concat(_)
Concat(ss) == IF ss = <<>> THEN <<>> ELSE Head(ss) \o Concat(Tail(ss))

\* rows.groupby('extension')[n].sum(): one row per extension, in ascending
\* order of the extension
GroupByExtension(rows) ==
    LET exts == SortedTexts({ rows[i].extension : i \in 1..Len(rows) })
    IN  [k \in 1..Len(exts) |->
            [extension |-> exts[k],
             n |-> SumOf(SelectSeq(rows, LAMBDA r : r.extension = exts[k]))]]

\* rows.groupby('bucket_name')[n].sum(): rows whose bucket_name is missing
\* belong to no group
GroupByBucket(rows) ==
    LET names == SortedTexts({ rows[i].bucket_name : i \in 1..Len(rows) } \ {NaN})
    IN  [k \in 1..Len(names) |->
            [bucket_name |-> names[k],
             n |-> SumOf(SelectSeq(rows, LAMBDA r : r.bucket_name = names[k]))]]

\* rows.groupby(['bucket_name', 'extension'])[n].sum()
GroupByBucketExtension(rows) ==
    LET names == SortedTexts({ rows[i].bucket_name : i \in 1..Len(rows) } \ {NaN})
    IN  Concat([k \in 1..Len(names) |->
            LET sub == GroupByExtension(SelectSeq(rows, LAMBDA r : r.bucket_name = names[k]))
            IN  [j \in 1..Len(sub) |->
                    [bucket_name |-> names[k], extension |-> sub[j].extension, n |-> sub[j].n]]])

\* rows.sort_values(n, ascending=False); rows with equal n keep their order
RECURSIVE SortValuesDescending(_)
SortValuesDescending(rows) ==
    IF rows = <<>> THEN <<>>
    ELSE LET i == CHOOSE i \in 1..Len(rows) :
                      /\ \A j \in 1..Len(rows) : rows[j].n <= rows[i].n
                      /\ \A j \in 1..(i - 1) : rows[j].n < rows[i].n
         IN  <<rows[i]>> \o
             SortValuesDescending(SubSeq(rows, 1, i - 1) \o SubSeq(rows, i + 1, Len(rows)))

\* rows.iloc[:n]
ILocUpTo(rows, n) ==
    LET stop == IF n >= 0 THEN (IF n < Len(rows) THEN n ELSE Len(rows))
                ELSE (IF Len(rows) + n > 0 THEN Len(rows) + n ELSE 0)
    IN  SubSeq(rows, 1, stop)

\* One row per record, counting 1 / weighing size_bytes
CountRows(df) ==
    [i \in 1..Len(df) |-> [bucket_name |-> df[i].bucket_name, extension |-> df[i].extension, n |-> 1]]
ByteRows(df) ==
    [i \in 1..Len(df) |->
        [bucket_name |-> df[i].bucket_name, extension |-> df[i].extension, n |-> df[i].size_bytes]]

\* total_by_ext without its sort_values
total_by_ext_Unsorted(df) == GroupByExtension(CountRows(df))

\* total_by_ext: df.groupby('extension').size() ... sort_values('total', ascending=False)
total_by_ext(df) == SortValuesDescending(GroupByExtension(CountRows(df)))

\* top_exts: the extensions of the first top_n_extensions rows of total_by_ext
top_exts(df, top_n_extensions) ==
    LET top == ILocUpTo(total_by_ext(df), top_n_extensions)
    IN  { top[i].extension : i \in 1..Len(top) }

\* df_counts: the records counted per (bucket_name, extension); with a top-N,
\* the extensions outside top_exts relabelled '<other>' and the counts summed
\* again per (bucket_name, extension)
df_counts(df, top_n) ==
    LET counts == GroupByBucketExtension(CountRows(df))
    IN  IF top_n = <<>> THEN counts
        ELSE LET keep == top_exts(df, top_n[1])
             IN  GroupByBucketExtension(
                    [i \in 1..Len(counts) |->
                        IF counts[i].extension \in keep THEN counts[i]
                        ELSE [counts[i] EXCEPT !.extension = TXT_other]])

\* df_counts_bytes: size_bytes summed per (bucket_name, extension)
df_counts_bytes(df) == GroupByBucketExtension(ByteRows(df))

\* total_by_extension: the records counted per extension, largest count first
total_by_extension(df) == SortValuesDescending(GroupByExtension(CountRows(df)))

\* total_by_extension_bytes: size_bytes summed per extension, largest sum first
total_by_extension_bytes(df) == SortValuesDescending(GroupByExtension(ByteRows(df)))

\* The bucket node taking the count of its first extension only
BucketNodes_FirstOnly(counts) ==
    LET per_bucket == GroupByBucket(counts)
    IN  [k \in 1..Len(per_bucket) |->
            [id |-> TXT_bucket_colon \o per_bucket[k].bucket_name,
             label |-> per_bucket[k].bucket_name,
             parent |-> TXT_root,
             value |-> (SelectSeq(counts,
                            LAMBDA r : r.bucket_name = per_bucket[k].bucket_name)[1]).n]]

\* bucket nodes (one per bucket): id 'bucket:<name>', parent 'root', value the
\* sum over the bucket's rows
BucketNodes(counts) ==
    LET per_bucket == GroupByBucket(counts)
    IN  [k \in 1..Len(per_bucket) |->
            [id |-> TXT_bucket_colon \o per_bucket[k].bucket_name,
             label |-> per_bucket[k].bucket_name,
             parent |-> TXT_root,
             value |-> per_bucket[k].n]]

\* extension nodes under each bucket: id '<name>|<extension>', parent the
\* bucket's id, value the row's
ExtensionNodes(counts) ==
    [k \in 1..Len(counts) |->
        [id |-> counts[k].bucket_name \o <<"|">> \o counts[k].extension,
         label |-> counts[k].extension,
         parent |-> TXT_bucket_colon \o counts[k].bucket_name,
         value |-> counts[k].n]]

\* ids, labels, parents, values of a sunburst: the root, the bucket nodes,
\* the extension nodes
Sunburst(root_label, counts) ==
    <<[id |-> TXT_root, label |-> root_label, parent |-> <<>>, value |-> SumOf(counts)]>>
    \o BucketNodes(counts) \o ExtensionNodes(counts)

\* labels, source, target, value of a sankey: node 0 is the total, node 1 + i
\* the i-th extension of totals
Sankey(total_label, totals) ==
    [labels |-> <<total_label>> \o [i \in 1..Len(totals) |-> totals[i].extension],
     source |-> [i \in 1..Len(totals) |-> 0],
     target |-> [i \in 1..Len(totals) |-> 1 + (i - 1)],
     value |-> [i \in 1..Len(totals) |-> totals[i].n]]

\* What cmd_visualize makes of a table: the four figures, in the order built
Figures(table, top_n_extensions) ==
    LET df == DataFrame(table)
    IN  [top_n_extensions |-> top_n_extensions,
         sunburst |-> Sunburst(TXT_All_files, df_counts(df, top_n_extensions)),
         sankey |-> Sankey(TXT_Total_files, total_by_extension(df)),
         sankey_bytes |-> Sankey(TXT_Total_bytes, total_by_extension_bytes(df)),
         sunburst_bytes |-> Sunburst(TXT_All_bytes, df_counts_bytes(df))]

\* A figure that was not made
NotMade == <<>>

\* Whether astype('int64') raises: it does on a column holding an infinity
CastRaises(table) ==
    \E n \in 2..Len(table) : IsInfinite(ReadCell(table[n][Column("size")]))

\* What cmd_visualize has made when the cast of the sizes raises: the count
\* sunburst and the count sankey, written before it
FiguresBeforeCast(table, top_n_extensions) ==
    LET df == DataFrame(table)
    IN  [top_n_extensions |-> top_n_extensions,
         sunburst |-> Sunburst(TXT_All_files, df_counts(df, top_n_extensions)),
         sankey |-> Sankey(TXT_Total_files, total_by_extension(df)),
         sankey_bytes |-> NotMade,
         sunburst_bytes |-> NotMade]

\* No figure made
NoFigures == <<>>

(***************************************************************************)
(* Inputs of visualize: the record tables.                                 *)
(***************************************************************************)
\* Rows in one table of the visualize runs.
MaxRows == 3

URL_null == <<"h", "/", "n", "u", "l", "l">>

KEY_readme == <<"d", "a", "t", "a", "/", "r", "e", "a", "d", "m", "e">>
KEY_targz == <<"a", "/", "b", ".", "c", ".", "T", "A", "R", ".", "G", "Z">>
KEY_dotfile == <<"c", "/", ".", "b">>

\* The (bucket, object) pairs a table's rows come from, in crawl order:
\* buckets in list order, objects in listing order
Inventory == <<
    <<URL_doi, Content(KEY_readme, Absent, Absent, <<"7">>, Absent, <<>>, Absent)>>,
    <<URL_doi, Content(KEY_targz, Absent, Absent, <<"1", "2">>, Absent, <<>>, Absent)>>,
    <<URL_pc, Content(None, Absent, Absent, <<"x">>, Absent, <<>>, Absent)>>,
    <<URL_pc, Content(KEY_dotfile, Absent, Absent, Absent, Absent, <<>>, Absent)>>,
    <<URL_pc, Content(KEY_targz, Absent, Absent, <<"3">>, Absent, <<>>, Absent)>>,
    <<URL_pc, Content(KEY_json, Absent, Absent, <<"5">>, Absent, <<>>, Absent)>>,
    <<URL_pc, Content(KEY_readme, Absent, Absent, <<"-", "5">>, Absent, <<>>, Absent)>>,
    <<URL_pc, Content(KEY_targz, Absent, Absent, <<"i", "n", "f">>, Absent, <<>>, Absent)>>,
    <<URL_null, Content(KEY_readme, Absent, Absent, <<"4">>, Absent, <<>>, Absent)>>,
    <<URL_null, Content(KEY_json, Absent, Absent, None, Absent, <<>>, Absent)>> >>

\* The row the crawler writes for a pair of the inventory
InventoryRow(i) ==
    CsvRow(RowDict(Inventory[i][1], BucketName(Inventory[i][1]), Inventory[i][2]))

\* The tables a crawl can leave: the header, then up to MaxRows rows in crawl
\* order (an object may be listed more than once)
Tables ==
    { <<CSV_HEADERS>> \o [n \in 1..Len(picks) |-> InventoryRow(picks[n])] :
        picks \in { p \in UNION { [1..len -> 1..Len(Inventory)] : len \in 0..MaxRows } :
                        \A n \in 1..(Len(p) - 1) : p[n] <= p[n + 1] } }

KEY_csv == <<"a", ".", "c", "s", "v">>
KEY_b_json == <<"b", ".", "j", "s", "o", "n">>
KEY_tif == <<"c", ".", "t", "i", "f">>
KEY_txt == <<"d", ".", "t", "x", "t">>

\* The table of one bucket holding 10 .csv, 5 .json, 3 .tif and 1 .txt object
ExampleTable ==
    LET row(key) == CsvRow(RowDict(URL_pc, BucketName(URL_pc),
                        Content(key, Absent, Absent, <<"2">>, Absent, <<>>, Absent)))
    IN  <<CSV_HEADERS>> \o [n \in 1..10 |-> row(KEY_csv)] \o [n \in 1..5 |-> row(KEY_b_json)]
        \o [n \in 1..3 |-> row(KEY_tif)] \o <<row(KEY_txt)>>

\* --top-n-extensions: not given, or an integer
TopNArgs == { <<>>, <<0>>, <<1>>, <<2>> }

(***************************************************************************)
(* The state machine.                                                      *)
(***************************************************************************)
Init ==
    /\ buckets \in BucketLists
    /\ max_pages \in MaxPagesArgs
    /\ pc = "start"
    /\ bi = 0
    /\ marker = None
    /\ page_count = 0
    /\ skipped_envidat1 = 0
    /\ skipped_doi_meta = 0
    /\ csv = <<>>
    /\ net = <<>>
    /\ outcome = <<>>
    /\ exc = ""
    /\ viz = NoFigures

\* cmd_fetch up to its loop: open(out_csv, 'w'); writer.writeheader()
CmdFetch ==
    /\ pc = "start"
    /\ csv' = <<CSV_HEADERS>>
    /\ pc' = "bucket"
    /\ UNCHANGED <<viz, buckets, max_pages, bi, marker, page_count, skipped_envidat1,
                   skipped_doi_meta, net, outcome, exc>>

\* The crawl of a bucket starting with the marker and the page count the
\* crawl before it left
StartBucket_KeepsState ==
    /\ pc = "bucket"
    /\ bi < Len(buckets)
    /\ bi' = bi + 1
    /\ skipped_envidat1' = 0
    /\ skipped_doi_meta' = 0
    /\ pc' = "fetch"
    /\ UNCHANGED <<viz, buckets, max_pages, marker, page_count, csv, net, outcome, exc>>

\* for bucket in buckets: list_s3_bucket_to_csv(bucket, ...) up to `while True`
StartBucket ==
    /\ pc = "bucket"
    /\ bi < Len(buckets)
    /\ bi' = bi + 1
    /\ marker' = None
    /\ page_count' = 0
    /\ skipped_envidat1' = 0
    /\ skipped_doi_meta' = 0
    /\ pc' = "fetch"
    /\ UNCHANGED <<viz, buckets, max_pages, csv, net, outcome, exc>>

\* The request one loop iteration sends
Request == [bucket |-> bi, url |-> buckets[bi], params |-> Params(marker)]

Exchange(resp) == [req |-> Request, resp |-> resp]

\* session.get / raise_for_status raises: logged, re-raised
FetchFailed ==
    /\ pc = "fetch"
    /\ Len(net) < MaxRequests
    /\ net' = Append(net, Exchange([kind |-> "fetch_error", root |-> NoRoot]))
    /\ pc' = OnError
    /\ exc' = "RequestException"
    /\ UNCHANGED <<viz, buckets, max_pages, bi, marker, page_count, skipped_envidat1,
                   skipped_doi_meta, csv, outcome>>

\* ET.fromstring raises: logged, re-raised
ParseFailed ==
    /\ pc = "fetch"
    /\ Len(net) < MaxRequests
    /\ net' = Append(net, Exchange([kind |-> "parse_error", root |-> NoRoot]))
    /\ pc' = OnError
    /\ exc' = "ParseError"
    /\ UNCHANGED <<viz, buckets, max_pages, bi, marker, page_count, skipped_envidat1,
                   skipped_doi_meta, csv, outcome>>

\* One loop iteration whose request and parse succeed: the entries are
\* filtered and written, then the pagination control decides how to go on.
PageFetched ==
    /\ pc = "fetch"
    /\ Len(net) < MaxRequests
    /\ \E root \in Roots :
        LET bucket_url == buckets[bi]
            bucket_name == BucketName(bucket_url)
            after == ProcessContents(root.Contents, bucket_url, bucket_name,
                        [csv |-> csv, skipped_envidat1 |-> skipped_envidat1,
                         skipped_doi_meta |-> skipped_doi_meta])
            fallback == Fallback(root.Contents)
            next_marker == IF HasNextMarker(root) THEN root.NextMarker ELSE fallback.marker
        IN  /\ net' = Append(net, Exchange([kind |-> "page", root |-> root]))
            /\ csv' = after.csv
            /\ skipped_envidat1' = after.skipped_envidat1
            /\ skipped_doi_meta' = after.skipped_doi_meta
            /\ page_count' = page_count + 1
            /\ IF root.IsTruncated = None
               THEN \* is_truncated_tag.text.lower() on None
                    /\ pc' = "failed"
                    /\ exc' = "AttributeError"
                    /\ UNCHANGED <<marker, outcome>>
               ELSE IF ~IsTruncated(root.IsTruncated)
               THEN /\ pc' = "bucket"
                    /\ outcome' = Append(outcome, "complete")
                    /\ UNCHANGED <<marker, exc>>
               ELSE IF ~HasNextMarker(root) /\ fallback.brk
               THEN /\ pc' = NoProgressStop
                    /\ outcome' = Append(outcome, "no_progress")
                    /\ UNCHANGED <<marker, exc>>
               ELSE IF ReachedMaxPages(max_pages, page_count + 1)
               THEN /\ pc' = "bucket"
                    /\ marker' = next_marker
                    /\ outcome' = Append(outcome, "max_pages")
                    /\ UNCHANGED exc
               ELSE /\ pc' = "fetch"
                    /\ marker' = next_marker
                    /\ UNCHANGED <<outcome, exc>>
    /\ UNCHANGED <<viz, buckets, max_pages, bi>>

\* cmd_fetch after its loop: the file is closed, 'All buckets processed'
CmdFetchReturns ==
    /\ pc = "bucket"
    /\ bi = Len(buckets)
    /\ pc' = "done"
    /\ UNCHANGED <<viz, buckets, max_pages, bi, marker, page_count, skipped_envidat1,
                   skipped_doi_meta, csv, net, outcome, exc>>

\* --max-pages of the run-all runs
RunAllMaxPagesArgs == { <<>>, <<1>> }

\* cmd_visualize: the table is read and the four figures are made; when the
\* cast of the sizes raises, the exception leaves cmd_visualize after the
\* first two
CmdVisualize ==
    /\ \E top_n_extensions \in TopNArgs :
          IF CastRaises(csv)
          THEN /\ viz' = FiguresBeforeCast(csv, top_n_extensions)
               /\ pc' = "failed"
               /\ exc' = "IntCastingNaNError"
          ELSE /\ viz' = Figures(csv, top_n_extensions)
               /\ pc' = "visualized"
               /\ exc' = exc
    /\ UNCHANGED <<buckets, max_pages, bi, marker, page_count, skipped_envidat1,
                   skipped_doi_meta, csv, net, outcome>>

\* cmd_visualize called although cmd_fetch raised
RunAllVisualize_AfterFailure ==
    /\ pc \in {"done", "failed"}
    /\ CmdVisualize

\* main, run-all: cmd_fetch(...) has returned; cmd_visualize(args.out, ...)
RunAllVisualize ==
    /\ pc = "done"
    /\ CmdVisualize

\* The fetch command
Next ==
    \/ CmdFetch
    \/ StartBucket
    \/ FetchFailed
    \/ ParseFailed
    \/ PageFetched
    \/ CmdFetchReturns

Spec == Init /\ [][Next]_vars

(***************************************************************************)
(* The run-all command: cmd_fetch, then cmd_visualize on the table it left. *)
(***************************************************************************)
InitRunAll ==
    /\ Init
    /\ max_pages \in RunAllMaxPagesArgs

NextRunAll ==
    \/ CmdFetch
    \/ StartBucket
    \/ FetchFailed
    \/ ParseFailed
    \/ PageFetched
    \/ CmdFetchReturns
    \/ RunAllVisualize

SpecRunAll == InitRunAll /\ [][NextRunAll]_vars

(***************************************************************************)
(* The visualize command, on a table an earlier crawl left.                *)
(***************************************************************************)
InitVisualize ==
    /\ csv \in Tables \cup {ExampleTable}
    /\ pc = "visualize"
    /\ viz = NoFigures
    /\ buckets = <<>>
    /\ max_pages = <<>>
    /\ bi = 0
    /\ marker = None
    /\ page_count = 0
    /\ skipped_envidat1 = 0
    /\ skipped_doi_meta = 0
    /\ net = <<>>
    /\ outcome = <<>>
    /\ exc = ""

\* main, visualize: cmd_visualize(args.csv, ...)
VisualizeCommand ==
    /\ pc = "visualize"
    /\ CmdVisualize

NextVisualize == VisualizeCommand

SpecVisualize == InitVisualize /\ [][NextVisualize]_vars

(***************************************************************************)
(* Vocabulary of the properties: what the log of exchanges and the record  *)
(* table say about one bucket.                                             *)
(***************************************************************************)
Count(s, P(_)) == Len(SelectSeq(s, P))

IsPage(x) == x.resp.kind = "page"
IsFailure(x) == x.resp.kind \in {"fetch_error", "parse_error"}

\* The positions in net of the requests sent for bucket b
RequestsTo(b) == { i \in 1..Len(net) : net[i].req.bucket = b }

\* Whether a request for the same bucket follows exchange i
RequestFollows(i) == \E j \in (i + 1)..Len(net) : net[j].req.bucket = net[i].req.bucket

\* The listing entries received for bucket b, page after page, in document order
EntriesOf(b) ==
    LET pages == SelectSeq(net, LAMBDA x : x.req.bucket = b /\ IsPage(x))
    IN  Concat([i \in 1..Len(pages) |-> pages[i].resp.root.Contents])

\* The data rows of the table, and those of bucket b
DataRows == IF csv = <<>> THEN <<>> ELSE Tail(csv)
RowsOf(b) == SelectSeq(DataRows, LAMBDA r : r[1] = buckets[b])

\* The key of an entry as the table shows it ('' when the entry has none)
KeyText(content) == CsvCell(SafeFindText(content, "Key"))

\* The row an entry of bucket b makes
RowFor(b, content) == CsvRow(RowDict(buckets[b], BucketName(buckets[b]), content))

\* Rule A and Rule B as the specification words them
MatchesRuleA(key) == Contains(Lower(key), TXT_envidat1)
MatchesRuleB(bucket_name, key) ==
    /\ bucket_name = TXT_envidat_doi
    /\ Lower(SplitExt(key)) \in {EXT_html, EXT_json, EXT_xml}

\* A page that says IsTruncated=true / one that says false or nothing
SaysTruncated(root) ==
    root.IsTruncated # Absent /\ root.IsTruncated # None /\ Lower(root.IsTruncated) = TXT_true
SaysNotTruncated(root) ==
    root.IsTruncated = Absent \/ (root.IsTruncated # None /\ Lower(root.IsTruncated) # TXT_true)

\* A page with a NextMarker that is present and non-empty
GivesNextMarker(root) ==
    root.NextMarker # Absent /\ root.NextMarker # None /\ root.NextMarker # <<>>

(***************************************************************************)
(* The properties.                                                         *)
(***************************************************************************)

\* C1: crawling one bucket always terminates, whatever the server answers
\* (no max_pages configured).  On finite runs: the loop never stands before a
\* request it has already sent in this crawl -- a run that does repeats for
\* ever against a server that repeats its answers, since nothing but the
\* marker decides what the loop does next.
C1_CrawlTerminates ==
    (pc = "fetch" /\ max_pages = <<>>) =>
        \A i \in RequestsTo(bi) : net[i].req.params # Params(marker)

\* C2: an entry of a fetched page is written to the table if and only if its
\* lower-cased key does not contain 'envidat.1' and it is not the case that
\* the bucket is named 'envidat-doi' and the key's extension is .html, .json
\* or .xml, case-insensitively: the rows one page adds are the rows of
\* exactly those entries.
C2_WrittenIffNotFiltered ==
    [][ (Len(net') = Len(net) + 1 /\ IsPage(net'[Len(net')])) =>
            LET x == net'[Len(net')]
                b == x.req.bucket
                bucket_name == BucketName(x.req.url)
                contents == x.resp.root.Contents
                added == SubSeq(csv', Len(csv) + 1, Len(csv'))
                kept == { i \in 1..Len(contents) :
                            /\ ~MatchesRuleA(KeyText(contents[i]))
                            /\ ~MatchesRuleB(bucket_name, KeyText(contents[i])) }
            IN  /\ Len(added) = Cardinality(kept)
                /\ \A i \in 1..Len(contents) :
                      (i \in kept) <=> (\E n \in 1..Len(added) : added[n] = RowFor(b, contents[i]))
      ]_vars

\* C2's case: one key with a .JSON extension listed in both buckets, dropped
\* from envidat-doi and written for the other bucket; and a key containing
\* 'Envidat.1' listed for the other bucket and not written.
C2_Witness ==
    /\ Len(net) = 2
    /\ IsPage(net[1]) /\ IsPage(net[2])
    /\ BucketName(net[1].req.url) = TXT_envidat_doi
    /\ BucketName(net[2].req.url) # TXT_envidat_doi
    /\ \E i \in 1..Len(net[1].resp.root.Contents) : net[1].resp.root.Contents[i].Key = KEY_json
    /\ net[2].resp.root.Contents = <<Listing[3], Listing[4]>>
    /\ \A n \in 1..Len(DataRows) : DataRows[n][3] = KEY_json => DataRows[n][1] = URL_pc
    /\ \E n \in 1..Len(DataRows) : DataRows[n][3] = KEY_json
    /\ \A n \in 1..Len(DataRows) : DataRows[n][3] # KEY_both

\* C3: a fetch or parse failure aborts the whole run: the failing request is
\* the last request of the run, the exception leaves cmd_fetch, and the
\* failing step adds no row to the table.
C3_FailureAbortsRun ==
    [][ /\ pc # "failed"
        /\ \A i \in 1..Len(net') :
              IsFailure(net'[i]) =>
                  /\ i = Len(net')
                  /\ pc' = "failed"
                  /\ exc' \in {"RequestException", "ParseError"}
        /\ (Len(net') = Len(net) + 1 /\ IsFailure(net'[Len(net')])) => csv' = csv
      ]_vars

\* C3's case: the first bucket's second request fails after a page that
\* wrote rows; the rows stay and the second bucket is never asked.
C3_Witness ==
    /\ pc = "failed"
    /\ Len(net) = 2
    /\ IsPage(net[1]) /\ IsFailure(net[2])
    /\ net[2].req.bucket = 1
    /\ Len(buckets) = 2
    /\ Len(DataRows) = 2

\* C4 as stated: the record stream is deduplicated -- no object key is
\* written to the table more than once for one bucket.
C4_Deduplicated ==
    \A m, n \in 1..Len(DataRows) :
        (m # n /\ DataRows[m][1] = DataRows[n][1]) => DataRows[m][3] # DataRows[n][3]

\* C4 amended: the crawler does not deduplicate; for every bucket and key the
\* table holds exactly one row per listed entry that carries the key and
\* passes the filter, so a key is written more than once exactly when the
\* server lists it more than once.
C4_OneRowPerListedEntry ==
    \A b \in 1..bi :
        LET entries == EntriesOf(b)
            rows == RowsOf(b)
            name == BucketName(buckets[b])
            survivors == SelectSeq(entries, LAMBDA f : Classify(name, SafeFindText(f, "Key")) = "write")
        IN  \A k \in { KeyText(entries[i]) : i \in 1..Len(entries) } :
                Count(rows, LAMBDA r : r[3] = k) = Count(survivors, LAMBDA f : KeyText(f) = k)

\* C4's case: the server lists the same key on two pages of one bucket and
\* the table holds it twice.
C4_Witness ==
    /\ Len(net) = 2
    /\ net[1].req.bucket = 1 /\ net[2].req.bucket = 1
    /\ net[1].resp.root.Contents = <<Listing[1]>>
    /\ net[2].resp.root.Contents = <<Listing[1]>>
    /\ Count(RowsOf(1), LAMBDA r : r[3] = KEY_plain) = 2

\* C5 as stated: a page with IsTruncated=true and zero entries ends the crawl
\* of its bucket, no further request follows for that bucket, whatever else
\* the page contains.
C5_EmptyTruncatedPageStops ==
    \A i \in 1..Len(net) :
        (IsPage(net[i]) /\ SaysTruncated(net[i].resp.root) /\ net[i].resp.root.Contents = <<>>)
            => ~RequestFollows(i)

\* C5 amended: a page with IsTruncated=true, zero entries and no non-empty
\* NextMarker ends the crawl of its bucket: no further request is issued for
\* that bucket.  (With a non-empty NextMarker the crawl goes on.)
C5_NoProgressGuard ==
    \A i \in 1..Len(net) :
        (/\ IsPage(net[i])
         /\ SaysTruncated(net[i].resp.root)
         /\ net[i].resp.root.Contents = <<>>
         /\ ~GivesNextMarker(net[i].resp.root))
            => /\ ~RequestFollows(i)
               /\ pc = "fetch" => net[i].req.bucket # bi
               /\ outcome[net[i].req.bucket] = "no_progress"

\* C5's case: the first bucket answers with a truncated page without entries
\* and without NextMarker, and the next request goes to the second bucket.
C5_Witness ==
    /\ Len(net) = 2
    /\ IsPage(net[1])
    /\ SaysTruncated(net[1].resp.root)
    /\ net[1].resp.root.Contents = <<>>
    /\ ~GivesNextMarker(net[1].resp.root)
    /\ net[1].req.bucket = 1
    /\ net[2].req.bucket = 2

\* C6: whenever a page has IsTruncated=true and the crawl of the bucket goes
\* on, the next request for that bucket carries a marker parameter equal to
\* the page's NextMarker when that is present and non-empty, and otherwise
\* equal to the Key of the last entry of that page.
C6_CursorDerivation ==
    \A i \in 1..(Len(net) - 1) :
        (IsPage(net[i]) /\ net[i + 1].req.bucket = net[i].req.bucket) =>
            LET root == net[i].resp.root
                last == root.Contents[Len(root.Contents)]
            IN  /\ SaysTruncated(root)
                /\ net[i + 1].req.params =
                      { <<"marker", IF GivesNextMarker(root) THEN root.NextMarker
                                    ELSE SafeFindText(last, "Key")>> }

\* C7: a page with IsTruncated=false, or without the element, ends the crawl
\* of its bucket after its entries are processed, whether or not it carries a
\* NextMarker or entries: no further request is issued for that bucket, the
\* crawl is recorded as complete, and the request that follows, if any,
\* goes to the next bucket.
C7_NotTruncatedStops ==
    \A i \in 1..Len(net) :
        (IsPage(net[i]) /\ SaysNotTruncated(net[i].resp.root)) =>
            /\ ~RequestFollows(i)
            /\ pc = "fetch" => bi # net[i].req.bucket
            /\ outcome[net[i].req.bucket] = "complete"
            /\ i < Len(net) => net[i + 1].req.bucket = net[i].req.bucket + 1
            /\ i = Len(net) => (pc # "failed" /\ exc = "")

\* C7's case: the first bucket's page says IsTruncated=false, has entries and
\* a NextMarker; the next request goes to the second bucket, without marker.
C7_Witness ==
    /\ Len(net) = 2
    /\ IsPage(net[1])
    /\ net[1].resp.root.IsTruncated = TEXT_false
    /\ net[1].resp.root.NextMarker = TEXT_k2
    /\ net[1].resp.root.Contents # <<>>
    /\ net[2].req.bucket = 2
    /\ net[2].req.params = {}

\* C8: the rows written for a bucket are exactly the concatenation, over its
\* pages in the order fetched, of each page's surviving entries in document
\* order.
C8_EmissionOrder ==
    \A b \in 1..bi :
        LET name == BucketName(buckets[b])
            survivors ==
                SelectSeq(EntriesOf(b), LAMBDA e : Classify(name, SafeFindText(e, "Key")) = "write")
        IN  RowsOf(b) = [n \in 1..Len(survivors) |-> CsvRow(RowDict(buckets[b], name, survivors[n]))]

\* C8's case: page 1 with two entries, IsTruncated=true and NextMarker=k2;
\* page 2, requested with marker=k2, with one entry and IsTruncated=false;
\* three records, page 1's first.
C8_Witness ==
    /\ Len(net) = 2
    /\ net[1].req.bucket = 1 /\ net[2].req.bucket = 1
    /\ net[1].resp.root = [Contents |-> <<Listing[1], Listing[2]>>,
                           IsTruncated |-> TEXT_True, NextMarker |-> TEXT_k2]
    /\ net[2].req.params = { <<"marker", TEXT_k2>> }
    /\ net[2].resp.root = [Contents |-> <<Listing[1]>>,
                           IsTruncated |-> TEXT_false, NextMarker |-> TEXT_k2]
    /\ DataRows = <<RowFor(1, Listing[1]), RowFor(1, Listing[2]), RowFor(1, Listing[1])>>

\* C9: with a maximum page count N configured, the crawl of each bucket
\* issues at most N page requests, and stopping at the ceiling is no error.
C9_MaxPagesCeiling ==
    max_pages # <<>> =>
        \A b \in 1..Len(buckets) :
            /\ Cardinality(RequestsTo(b)) <= max_pages[1]
            /\ (b <= Len(outcome) /\ outcome[b] = "max_pages") => (b < bi \/ exc = "")

\* C10: for every bucket, after any number of processed pages, the rows
\* written for it are the entries seen minus those skipped by Rule A minus
\* those skipped by Rule B; an entry matching both rules is counted under
\* Rule A only, and the Rule B counter stays 0 outside 'envidat-doi'.
C10_CountConservation ==
    bi >= 1 =>
        LET name == BucketName(buckets[bi])
            seen == EntriesOf(bi)
        IN  /\ skipped_envidat1 = Count(seen, LAMBDA e : MatchesRuleA(KeyText(e)))
            /\ skipped_doi_meta =
                  Count(seen, LAMBDA e : ~MatchesRuleA(KeyText(e)) /\ MatchesRuleB(name, KeyText(e)))
            /\ Len(RowsOf(bi)) = Len(seen) - skipped_envidat1 - skipped_doi_meta
            /\ name # TXT_envidat_doi => skipped_doi_meta = 0

\* C10's case: in 'envidat-doi', over two pages, one entry matches Rule B
\* only, one matches both rules, and two entries are written.
C10_Witness ==
    /\ bi = 1
    /\ BucketName(buckets[bi]) = TXT_envidat_doi
    /\ Cardinality(RequestsTo(1)) = 2
    /\ Len(EntriesOf(1)) = 4
    /\ skipped_envidat1 = 1
    /\ skipped_doi_meta = 1
    /\ Len(RowsOf(1)) = 2

\* A truncated page without entries and without a usable NextMarker: the
\* page on which the no-progress stop is taken
NoProgressPage(x) ==
    /\ IsPage(x)
    /\ SaysTruncated(x.resp.root)
    /\ x.resp.root.Contents = <<>>
    /\ ~GivesNextMarker(x.resp.root)

\* C11: the no-progress stop is not fatal: the step that receives a truncated
\* page with no entries and no derivable cursor ends the crawl of its bucket
\* as a completed result, raises nothing and leaves the rows already written
\* as they are; and the step after it is the orchestrator going on, to the
\* first request (without marker) of the next bucket of the list, or to its
\* normal return when the bucket was the last.
C11_NoProgressNotFatal ==
    [][ /\ (Len(net') = Len(net) + 1 /\ NoProgressPage(net'[Len(net')])) =>
              /\ pc' = "bucket"
              /\ exc' = ""
              /\ csv' = csv
              /\ bi' = bi
              /\ outcome' = Append(outcome, "no_progress")
        /\ (pc = "bucket" /\ net # <<>> /\ NoProgressPage(net[Len(net)])) =>
              /\ csv' = csv
              /\ exc' = ""
              /\ net' = net
              /\ IF bi < Len(buckets)
                 THEN pc' = "fetch" /\ bi' = bi + 1 /\ marker' = None /\ page_count' = 0
                 ELSE pc' = "done"
      ]_vars

\* C11's case: the first bucket's first page wrote two rows, its second page
\* took the no-progress stop, the rows are still there and the run stands
\* before the first request to the second bucket.
C11_Witness ==
    /\ Len(net) = 2
    /\ net[1].req.bucket = 1 /\ net[2].req.bucket = 1
    /\ NoProgressPage(net[2])
    /\ outcome = <<"no_progress">>
    /\ Len(DataRows) = 2
    /\ pc = "fetch" /\ bi = 2 /\ marker = None
    /\ exc = ""

\* C12: the record table is append-only with a leading header: once cmd_fetch
\* has opened it, in every state of the run -- after a fatal error too -- it
\* is the header row followed by zero or more data rows of the configured
\* buckets, and every step leaves the rows written before it unchanged and
\* in place, new rows going to the end.
C12_AppendOnlyWithHeader ==
    [][ /\ pc = "start" => csv' = <<CSV_HEADERS>>
        /\ pc # "start" =>
              /\ Len(csv) >= 1 /\ csv[1] = CSV_HEADERS
              /\ Len(csv') >= Len(csv)
              /\ SubSeq(csv', 1, Len(csv)) = csv
              /\ \A n \in 2..Len(csv') :
                    /\ Len(csv'[n]) = Len(CSV_HEADERS)
                    /\ \E b \in 1..Len(buckets) : csv'[n][1] = buckets[b]
      ]_vars

\* C12's case: the second request of the run fails after the first page
\* appended two rows below the header; the table is the header and those rows.
C12_Witness ==
    /\ pc = "failed"
    /\ Len(net) = 2
    /\ IsPage(net[1]) /\ IsFailure(net[2])
    /\ net[1].resp.root.Contents = <<Listing[1], Listing[2]>>
    /\ csv = <<CSV_HEADERS, RowFor(1, Listing[1]), RowFor(1, Listing[2])>>

(***************************************************************************)
(* Vocabulary of the properties of the figures.                            *)
(***************************************************************************)
\* The records cmd_visualize reads from the table, and their extensions
Records == DataFrame(csv)
ExtensionsPresent == { Records[i].extension : i \in 1..Len(Records) }
BucketsPresent == { Records[i].bucket_name : i \in 1..Len(Records) } \ {NaN}

\* How many records carry extension e, in all buckets / in bucket b
GlobalCount(e) == Count(Records, LAMBDA r : r.extension = e)
BucketCount(b, e) == Count(Records, LAMBDA r : r.bucket_name = b /\ r.extension = e)

\* The top-N setting of the run, and whether cmd_visualize has run to its end
TopN == viz.top_n_extensions
Visualized == pc = "visualized"

\* The sets of extensions that are 'the N with the largest global count'
\* (all of them when fewer than N are present)
LargestN(N) ==
    { kept \in SUBSET ExtensionsPresent :
        /\ Cardinality(kept) =
              (IF N < Cardinality(ExtensionsPresent) THEN N ELSE Cardinality(ExtensionsPresent))
        /\ \A k \in kept : \A d \in ExtensionsPresent \ kept : GlobalCount(k) >= GlobalCount(d) }

\* The sum of the values of a sequence of nodes
RECURSIVE ValueSum(_)
ValueSum(nodes) == IF nodes = <<>> THEN 0 ELSE Head(nodes).value + ValueSum(Tail(nodes))

\* The nodes of a tree whose parent has the given id
ChildrenOf(tree, id) == SelectSeq(tree, LAMBDA node : node.parent = id)

\* The root of a tree: its node without parent
RootOf(tree) == ChildrenOf(tree, <<>>)

\* Parent values are the sums of their children's, on the levels root and bucket
TreeSums(tree) ==
    /\ Len(RootOf(tree)) = 1
    /\ RootOf(tree)[1].id = TXT_root
    /\ RootOf(tree)[1].value = ValueSum(ChildrenOf(tree, TXT_root))
    /\ \A k \in 1..Len(ChildrenOf(tree, TXT_root)) :
          LET bucket == ChildrenOf(tree, TXT_root)[k]
          IN  /\ ChildrenOf(tree, bucket.id) # <<>>
              /\ bucket.value = ValueSum(ChildrenOf(tree, bucket.id))

\* C13: for every non-empty record table and every top-N setting, in the
\* CountTree and in the ByteTree the root's value is the sum of the bucket
\* nodes' values and every bucket node's value is the sum of the values of
\* the extension nodes below it.
C13_TreeInvariant ==
    (Visualized /\ Len(csv) > 1) =>
        /\ TreeSums(viz.sunburst)
        /\ TreeSums(viz.sunburst_bytes)

\* C13's case: three records in two buckets, top-N 1: a bucket node stands
\* over an extension node and an '<other>' node, the CountTree's root is 3,
\* the ByteTree's is 22.
C13_Witness ==
    /\ Visualized
    /\ TopN = <<1>>
    /\ csv = <<CSV_HEADERS, InventoryRow(1), InventoryRow(2), InventoryRow(5)>>
    /\ Len(ChildrenOf(viz.sunburst, TXT_root)) = 2
    /\ \E k \in 1..Len(viz.sunburst) :
          /\ viz.sunburst[k].label = TXT_other
          /\ viz.sunburst[k].parent = TXT_bucket_colon \o TXT_envidat_doi
    /\ RootOf(viz.sunburst)[1].value = 3
    /\ RootOf(viz.sunburst_bytes)[1].value = 22

\* C14: with top-N requested, the extensions kept under their own label in
\* the CountTree are the N extensions with the largest global record count
\* (over all buckets), every other extension goes under '<other>', and in
\* each bucket the '<other>' node counts the records of the merged
\* extensions; e.g. {.csv:10, .json:5, .tif:3, .txt:1}, N=2 gives
\* {.csv:10, .json:5, <other>:4}.
C14_TopNCountTree ==
    (Visualized /\ TopN # <<>>) =>
        \E kept \in LargestN(TopN[1]) :
            \A b \in BucketsPresent :
                LET below == ChildrenOf(viz.sunburst, TXT_bucket_colon \o b)
                    merged == Count(Records, LAMBDA r : r.bucket_name = b /\ r.extension \notin kept)
                    nodes(label) == SelectSeq(below, LAMBDA node : node.label = label)
                IN  /\ \A k \in 1..Len(below) : below[k].label \in kept \cup {TXT_other}
                    /\ \A e \in kept :
                          IF BucketCount(b, e) = 0 THEN nodes(e) = <<>>
                          ELSE Len(nodes(e)) = 1 /\ nodes(e)[1].value = BucketCount(b, e)
                    /\ IF merged = 0 THEN nodes(TXT_other) = <<>>
                       ELSE Len(nodes(TXT_other)) = 1 /\ nodes(TXT_other)[1].value = merged

\* C14's case: the table with 10 .csv, 5 .json, 3 .tif and 1 .txt record and
\* N=2: the bucket's extension nodes are .csv:10, .json:5 and <other>:4.
C14_Witness ==
    /\ Visualized
    /\ csv = ExampleTable
    /\ TopN = <<2>>
    /\ LET below == ChildrenOf(viz.sunburst, TXT_bucket_colon \o BucketName(URL_pc))
       IN  { <<below[k].label, below[k].value>> : k \in 1..Len(below) } =
              { <<<<".", "c", "s", "v">>, 10>>, <<EXT_json, 5>>, <<TXT_other, 4>> }

\* The sum of a sequence of numbers, and the bytes of a sequence of records
RECURSIVE SeqSum(_)
SeqSum(s) == IF s = <<>> THEN 0 ELSE Head(s) + SeqSum(Tail(s))
BytesOf(records) == SeqSum([i \in 1..Len(records) |-> records[i].size_bytes])

\* The extension labels at the targets of a flow's edges
TargetLabels(flow) == [i \in 1..Len(flow.target) |-> flow.labels[flow.target[i] + 1]]

\* C15: top-N collapsing applies to the flow graphs too: with top-N requested
\* and more than N distinct extensions present, the CountFlow and the
\* ByteFlow each have one target node per retained extension plus a single
\* '<other>' node whose edge carries the summed count (resp. bytes) of all
\* other extensions, and no edge for an extension outside the top N.
C15_FlowsCollapsed ==
    (Visualized /\ TopN # <<>> /\ Cardinality(ExtensionsPresent) > TopN[1]) =>
        \E kept \in LargestN(TopN[1]) :
            LET rest == SelectSeq(Records, LAMBDA r : r.extension \notin kept)
                collapsed(flow, other) ==
                    /\ Len(flow.value) = TopN[1] + 1
                    /\ { TargetLabels(flow)[i] : i \in 1..Len(flow.target) } = kept \cup {TXT_other}
                    /\ \A i \in 1..Len(flow.target) :
                          TargetLabels(flow)[i] = TXT_other => flow.value[i] = other
            IN  /\ collapsed(viz.sankey, Len(rest))
                /\ collapsed(viz.sankey_bytes, BytesOf(rest))

\* The extension label as C16 words it: '<no_ext>' when the key is missing or
\* empty or its basename is empty or has no '.', else the lower-cased suffix
\* of the basename from its last '.'
ExtensionAsStated(key) ==
    IF key = NaN \/ key = <<>> THEN TXT_no_ext
    ELSE LET base == SubSeq(key, RFind(key, "/") + 2, Len(key))
             dots == { i \in 1..Len(base) : base[i] = "." }
         IN  IF dots = {} THEN TXT_no_ext
             ELSE LET last == CHOOSE i \in dots : \A j \in dots : j <= i
                  IN  Lower(SubSeq(base, last, Len(base)))

\* The same, with '<no_ext>' also when nothing but dots precedes the last '.'
ExtensionAmended(key) ==
    IF key = NaN \/ key = <<>> THEN TXT_no_ext
    ELSE LET base == SubSeq(key, RFind(key, "/") + 2, Len(key))
             dots == { i \in 1..Len(base) : base[i] = "." }
         IN  IF dots = {} THEN TXT_no_ext
             ELSE LET last == CHOOSE i \in dots : \A j \in dots : j <= i
                  IN  IF \A j \in 1..(last - 1) : base[j] = "." THEN TXT_no_ext
                      ELSE Lower(SubSeq(base, last, Len(base)))

\* C16 as stated: for every key the extension label is '<no_ext>' when the
\* key is missing, empty, or its basename is empty or contains no '.', and
\* otherwise the lower-cased suffix of the basename starting at its last '.'.
C16_ExtensionAsStated ==
    Visualized => \A i \in 1..Len(Records) :
        Records[i].extension = ExtensionAsStated(Records[i].key)

\* C16 amended: for every key the extension label is '<no_ext>' when the key
\* is missing, empty, or its basename is empty, contains no '.', or has
\* nothing but '.' characters before its last '.' (a dot-file such as
\* '.bashrc'); otherwise it is the lower-cased suffix of the basename
\* starting at its last '.'.
C16_ExtensionDerivation ==
    Visualized => \A i \in 1..Len(Records) :
        Records[i].extension = ExtensionAmended(Records[i].key)

\* C16's case: a table with a missing key, the dot-file 'c/.b' and
\* 'a/b.c.TAR.GZ': the labels are '<no_ext>', '<no_ext>' and '.gz'.
C16_Witness ==
    /\ Visualized
    /\ csv = <<CSV_HEADERS, InventoryRow(3), InventoryRow(4), InventoryRow(5)>>
    /\ [i \in 1..3 |-> Records[i].key] = <<NaN, KEY_dotfile, KEY_targz>>
    /\ [i \in 1..3 |-> Records[i].extension] = <<TXT_no_ext, TXT_no_ext, <<".", "g", "z">> >>

\* C17: for every record table the CountFlow has exactly one edge per
\* distinct extension, each from source 0 to a distinct target whose label
\* is that extension, and its edge values sum to the number of records, which
\* is the CountTree's root value; and the ByteFlow's edge values sum to the
\* total of the parsed sizes, which is the ByteTree's root value.
C17_FlowSums ==
    Visualized =>
        LET one_edge_per_extension(flow) ==
                /\ Len(flow.value) = Cardinality(ExtensionsPresent)
                /\ \A i \in 1..Len(flow.source) : flow.source[i] = 0
                /\ \A i, j \in 1..Len(flow.target) : i # j => flow.target[i] # flow.target[j]
                /\ { TargetLabels(flow)[i] : i \in 1..Len(flow.target) } = ExtensionsPresent
        IN  /\ one_edge_per_extension(viz.sankey)
            /\ one_edge_per_extension(viz.sankey_bytes)
            /\ SeqSum(viz.sankey.value) = Len(Records)
            /\ SeqSum(viz.sankey.value) = RootOf(viz.sunburst)[1].value
            /\ SeqSum(viz.sankey_bytes.value) = BytesOf(Records)
            /\ SeqSum(viz.sankey_bytes.value) = RootOf(viz.sunburst_bytes)[1].value

\* The shape of a tree: its node ids, each with the id of its parent
ShapeOf(tree) == { <<tree[k].id, tree[k].parent>> : k \in 1..Len(tree) }

\* C19: for every record table and every top-N setting the ByteTree has the
\* shape of the CountTree: the same node ids with the same parent for each
\* (the root, one node per bucket, one node per bucket and extension label);
\* only the values differ.
C19_SameShape ==
    Visualized => ShapeOf(viz.sunburst_bytes) = ShapeOf(viz.sunburst)

\* The ways the crawl of a bucket ends without an error
NormalEnds == {"complete", "no_progress", "max_pages"}

\* The place in the bucket list of the bucket a data row belongs to
BucketIndexOf(row) == CHOOSE b \in 1..Len(buckets) : buckets[b] = row[1]

\* C18: buckets are crawled strictly one after the other and independently:
\* a request for a bucket is issued only when every earlier bucket of the
\* list has been crawled to a non-error end, so in the table the rows of an
\* earlier bucket precede those of a later one; the first request to each
\* bucket carries no marker; and the page count, hence the page ceiling,
\* starts again at 0 for each bucket.
C18_SequentialIndependent ==
    /\ \A i \in 1..Len(net) : \A b \in 1..(net[i].req.bucket - 1) :
          /\ b <= Len(outcome) /\ outcome[b] \in NormalEnds
          /\ RequestsTo(b) # {}
          /\ \A k \in RequestsTo(b) : k < i /\ IsPage(net[k])
    /\ \A m, n \in 1..Len(DataRows) :
          m < n => BucketIndexOf(DataRows[m]) <= BucketIndexOf(DataRows[n])
    /\ \A i \in 1..Len(net) :
          (i = 1 \/ net[i - 1].req.bucket # net[i].req.bucket) => net[i].req.params = {}
    /\ bi >= 1 => page_count = Cardinality({ i \in RequestsTo(bi) : IsPage(net[i]) })
    /\ \A b \in 1..Len(outcome) :
          (outcome[b] = "max_pages") =>
              Cardinality(RequestsTo(b)) = (IF max_pages[1] = 0 THEN 1 ELSE max_pages[1])

\* C18's case: with a ceiling of one page, the first bucket stops at the
\* ceiling on a truncated page that gives NextMarker k2; the second bucket is
\* then asked without marker, gets its own page, and its rows follow the
\* first bucket's.
C18_Witness ==
    /\ max_pages = <<1>>
    /\ Len(net) = 2
    /\ net[1].req.bucket = 1 /\ net[2].req.bucket = 2
    /\ net[1].resp.root.NextMarker = TEXT_k2
    /\ outcome = <<"max_pages", "max_pages">>
    /\ net[2].req.params = {}
    /\ page_count = 1
    /\ RowsOf(1) # <<>> /\ RowsOf(2) # <<>>

\* C20: in the run-all command the aggregation starts only after the crawl of
\* every configured bucket has ended without a fatal error: a run in which a
\* fetch or parse failure (or any other exception) occurred never has its
\* figures made.
C20_AggregationAfterCrawl ==
    Visualized =>
        /\ pc = "visualized"
        /\ exc = ""
        /\ Len(outcome) = Len(buckets)
        /\ \A b \in 1..Len(buckets) : outcome[b] \in NormalEnds /\ RequestsTo(b) # {}
        /\ \A i \in 1..Len(net) : ~IsFailure(net[i])
        /\ viz = Figures(csv, TopN)

\* C20's case: both buckets were crawled, each with one page that wrote rows,
\* and the figures were made of the table the crawl left.
C20_Witness ==
    /\ Visualized
    /\ Len(net) = 2
    /\ net[1].req.bucket = 1 /\ net[2].req.bucket = 2
    /\ outcome = <<"complete", "complete">>
    /\ RowsOf(1) # <<>> /\ RowsOf(2) # <<>>
    /\ RootOf(viz.sunburst)[1].value = Len(DataRows)

\* Whether cmd_visualize has been called, to its end or not
VisualizeRan == viz # NoFigures

\* A size text that is a number: digits, with or without a sign, or an infinity
IsNumberText(size) ==
    /\ size # NaN
    /\ \/ IsInfinite(size)
       \/ LET digits == IF size # <<>> /\ size[1] \in {"-", "+"} THEN Tail(size) ELSE size
          IN  digits # <<>> /\ \A i \in 1..Len(digits) : digits[i] \in DOMAIN DigitOf

\* C21: size parsing is lenient: for every record table a record whose size
\* is missing or is no number contributes 0 bytes, the aggregation never
\* fails because of a size value, and every node value of the ByteTree and
\* every edge value of the ByteFlow is a non-negative integer.
C21_LenientSizes ==
    VisualizeRan =>
        /\ pc = "visualized" /\ exc = ""
        /\ \A i \in 1..Len(Records) :
              ~IsNumberText(Records[i].size) => Records[i].size_bytes = 0
        /\ \A k \in 1..Len(viz.sunburst_bytes) : viz.sunburst_bytes[k].value \in Nat
        /\ \A i \in 1..Len(viz.sankey_bytes.value) : viz.sankey_bytes.value[i] \in Nat

====
